---- MODULE Spec2Model ----
(***************************************************************************)
(* InterviewIQ: the three model-backed flows (analyzeCandidateResponse,    *)
(* generatePostInterviewInsights, generateJobDetails) and the two forms    *)
(* that call them (ResponseAnalysis, PostInterviewInsights), mounted one   *)
(* at a time by the tabs of the Home page.                                 *)
(*                                                                         *)
(* Conventions.                                                            *)
(*  - A JavaScript value is a record [t, v]: t is its type tag, v its      *)
(*    content (a sequence of characters for a string, a sequence of values *)
(*    for an array, a record of values for an object, <<>> for null and    *)
(*    undefined).  A key an object does not have reads as Undefined.       *)
(*    A character is one token of text; a role name is a single token, and *)
(*    the text the model writes about a role repeats that token.           *)
(*  - useTransition with an async callback keeps its pending flag set from *)
(*    startTransition until the callback's promise settles.                *)
(*  - A flow defined with ai.defineFlow({inputSchema, outputSchema}, fn)   *)
(*    parses its input with inputSchema before fn runs and fn's return     *)
(*    value with outputSchema afterwards, and rejects when either fails.   *)
(***************************************************************************)
EXTENDS Integers, Sequences, FiniteSets, TLC

(***************************************************************************)
(* Bounds of the model.                                                    *)
(***************************************************************************)
\* how many of the seven jobRoles the selector offers in the model
MaxRoles == 2
\* typed text is at most this much longer than the minimum of its field
MaxOver == 0
\* the largest number of candidate responses in the insights form
MaxResponses == 2

(***************************************************************************)
(* JavaScript values.                                                      *)
(***************************************************************************)
Null == [t |-> "null", v |-> <<>>]

Undefined == [t |-> "undefined", v |-> <<>>]

JsString(s) == [t |-> "string", v |-> s]

JsArray(a) == [t |-> "array", v |-> a]

JsObject(r) == [t |-> "object", v |-> r]

\* x == null || x === undefined
IsNullish(x) == x.t \in {"null", "undefined"}

\* o?.k
OptionalChain(o, k) == IF IsNullish(o) THEN Undefined ELSE o.v[k]

\* x ?? d
NullishCoalesce(x, d) == IF IsNullish(x) THEN d ELSE x

\* a text of n characters c
Text(n, c) == JsString([i \in 1..n |-> c])

EmptyString == JsString(<<>>)

(***************************************************************************)
(* Outcomes of calls: a returned value or a thrown error.                  *)
(***************************************************************************)
Return(x) == [ok |-> TRUE, value |-> x]

Throw == [ok |-> FALSE, value |-> Undefined]

(***************************************************************************)
(* Output schemas of the flows (zod): z.string() accepts exactly strings,  *)
(* z.array(e) arrays whose every element e accepts, z.object({...})        *)
(* objects whose every listed key is accepted by its schema.               *)
(***************************************************************************)
ZString(x) == x.t = "string"

ZArrayOfString(x) ==
    /\ x.t = "array"
    /\ \A i \in 1..Len(x.v) : ZString(x.v[i])

ZArrayOfObject(x, keys) ==
    /\ x.t = "array"
    /\ \A i \in 1..Len(x.v) :
          /\ x.v[i].t = "object"
          /\ \A k \in keys : ZString(x.v[i].v[k])

AnalyzeCandidateResponseInputSchema(x) ==
    /\ x.t = "object"
    /\ ZString(x.v.candidateResponse)
    /\ ZString(x.v.jobDescription)
    /\ ZString(x.v.keywords)

AnalyzeCandidateResponseOutputSchema(x) ==
    /\ x.t = "object"
    /\ ZString(x.v.sentiment)
    /\ ZString(x.v.clarity)
    /\ ZString(x.v.keywordRelevance)
    /\ ZString(x.v.overallAssessment)

PostInterviewInsightsInputSchema(x) ==
    /\ x.t = "object"
    /\ ZArrayOfString(x.v.candidateResponses)
    /\ ZString(x.v.jobDescription)

PostInterviewInsightsOutputSchema(x) ==
    /\ x.t = "object"
    /\ ZString(x.v.overallSummary)
    /\ ZArrayOfString(x.v.strengths)
    /\ ZArrayOfString(x.v.weaknesses)
    /\ ZArrayOfObject(x.v.skillAssessment, {"skill", "assessment"})
    /\ ZArrayOfObject(x.v.comparisonPoints, {"metric", "value"})

GenerateJobDetailsInputSchema(x) ==
    /\ x.t = "object"
    /\ ZString(x.v.jobRole)

GenerateJobDetailsOutputSchema(x) ==
    /\ x.t = "object"
    /\ ZString(x.v.jobDescription)
    /\ ZString(x.v.keywords)

(***************************************************************************)
(* The flows.  `reply` is what `await prompt(input)` did: Throw for a      *)
(* transport or backend failure, else Return(output) with output null or   *)
(* an object holding the keys the model supplied.                          *)
(***************************************************************************)
\* "No summary generated."
NoSummaryGenerated ==
    JsString(<<"N", "o", " ", "s", "u", "m", "m", "a", "r", "y", " ",
               "g", "e", "n", "e", "r", "a", "t", "e", "d", ".">>)

EmptyArray == JsArray(<<>>)

\* async input => { const {output} = await prompt(input); return output!; }
analyzeCandidateResponseFn(reply) ==
    IF ~reply.ok THEN Throw ELSE Return(reply.value)

\* a normalizer that passes strengths on as the model left it
validatedOutputWithoutDefault(output) ==
    JsObject([
        overallSummary |->
            NullishCoalesce(OptionalChain(output, "overallSummary"), NoSummaryGenerated),
        strengths |-> OptionalChain(output, "strengths"),
        weaknesses |->
            NullishCoalesce(OptionalChain(output, "weaknesses"), EmptyArray),
        skillAssessment |->
            NullishCoalesce(OptionalChain(output, "skillAssessment"), EmptyArray),
        comparisonPoints |->
            NullishCoalesce(OptionalChain(output, "comparisonPoints"), EmptyArray)])

\* a normalizer that always starts weaknesses empty
validatedOutputResettingWeaknesses(output) ==
    JsObject([
        overallSummary |->
            NullishCoalesce(OptionalChain(output, "overallSummary"), NoSummaryGenerated),
        strengths |->
            NullishCoalesce(OptionalChain(output, "strengths"), EmptyArray),
        weaknesses |-> EmptyArray,
        skillAssessment |->
            NullishCoalesce(OptionalChain(output, "skillAssessment"), EmptyArray),
        comparisonPoints |->
            NullishCoalesce(OptionalChain(output, "comparisonPoints"), EmptyArray)])

\* the result normalizer of generatePostInterviewInsightsFlow
validatedOutput(output) ==
    JsObject([
        overallSummary |->
            NullishCoalesce(OptionalChain(output, "overallSummary"), NoSummaryGenerated),
        strengths |->
            NullishCoalesce(OptionalChain(output, "strengths"), EmptyArray),
        weaknesses |->
            NullishCoalesce(OptionalChain(output, "weaknesses"), EmptyArray),
        skillAssessment |->
            NullishCoalesce(OptionalChain(output, "skillAssessment"), EmptyArray),
        comparisonPoints |->
            NullishCoalesce(OptionalChain(output, "comparisonPoints"), EmptyArray)])

generatePostInterviewInsightsFn(reply) ==
    IF ~reply.ok THEN Throw ELSE Return(validatedOutput(reply.value))

\* async input => { const { output } = await prompt(input); return output!; }
generateJobDetailsFn(reply) ==
    IF ~reply.ok THEN Throw ELSE Return(reply.value)

\* ai.defineFlow({inputSchema, outputSchema}, fn): the run of one flow, given
\* whether its input and fn's return value parse
RunFlow(inputOk, returned, outputOk) ==
    IF ~inputOk THEN Throw
    ELSE IF ~returned.ok THEN Throw
    ELSE IF ~outputOk THEN Throw
    ELSE returned

\* the flow defined without its outputSchema
analyzeCandidateResponseUnchecked(input, reply) ==
    RunFlow(AnalyzeCandidateResponseInputSchema(input), analyzeCandidateResponseFn(reply), TRUE)

analyzeCandidateResponse(input, reply) ==
    LET returned == analyzeCandidateResponseFn(reply)
    IN  RunFlow(AnalyzeCandidateResponseInputSchema(input), returned,
                returned.ok /\ AnalyzeCandidateResponseOutputSchema(returned.value))

generatePostInterviewInsights(input, reply) ==
    LET returned == generatePostInterviewInsightsFn(reply)
    IN  RunFlow(PostInterviewInsightsInputSchema(input), returned,
                returned.ok /\ PostInterviewInsightsOutputSchema(returned.value))

\* the flow defined without its outputSchema
generateJobDetailsUnchecked(input, reply) ==
    RunFlow(GenerateJobDetailsInputSchema(input), generateJobDetailsFn(reply), TRUE)

generateJobDetails(input, reply) ==
    LET returned == generateJobDetailsFn(reply)
    IN  RunFlow(GenerateJobDetailsInputSchema(input), returned,
                returned.ok /\ GenerateJobDetailsOutputSchema(returned.value))

(***************************************************************************)
(* ResponseAnalysis: constants and form schema.                            *)
(***************************************************************************)
\* z.string().min(10, ...) of candidateResponse
MinCandidateResponse == 10
\* z.string().min(20, ...) of jobDescription
MinJobDescription == 20
\* z.string().min(3, ...) of keywords
MinKeywords == 3

MAX_FILE_SIZE_MB == 20

MAX_FILE_SIZE_BYTES == MAX_FILE_SIZE_MB * 1024 * 1024

ACCEPTED_VIDEO_TYPES ==
    <<"video/mp4", "video/webm", "video/quicktime", "video/x-msvideo", "video/avi">>

jobRoles ==
    <<"Software Engineer", "Product Manager", "Data Scientist", "UX Designer",
      "Marketing Specialist", "Sales Representative", "Human Resources Manager">>

\* the roles the selector offers in the model
Roles == {jobRoles[i] : i \in 1..(IF MaxRoles < Len(jobRoles) THEN MaxRoles ELSE Len(jobRoles))}

\* zod's issue for a value that is not a string
InvalidTypeMessage(x) ==
    CASE x.t = "undefined" -> "Required"
      [] x.t = "null" -> "Expected string, received null"
      [] x.t = "array" -> "Expected string, received array"
      [] OTHER -> "Expected string, received object"

\* a minimum that a string of exactly `min` characters does not meet
ZStringMinExclusive(field, index, x, min, message) ==
    IF ~ZString(x)
    THEN {[field |-> field, index |-> index, message |-> InvalidTypeMessage(x)]}
    ELSE IF Len(x.v) <= min
         THEN {[field |-> field, index |-> index, message |-> message]}
         ELSE {}

\* z.string().min(min, {message}) applied to x at `field` (element `index`)
ZStringMin(field, index, x, min, message) ==
    IF ~ZString(x)
    THEN {[field |-> field, index |-> index, message |-> InvalidTypeMessage(x)]}
    ELSE IF Len(x.v) < min
         THEN {[field |-> field, index |-> index, message |-> message]}
         ELSE {}

\* z.string().optional()
ZStringOptional(field, x) ==
    IF x.t = "undefined" \/ ZString(x) THEN {}
    ELSE {[field |-> field, index |-> 0, message |-> InvalidTypeMessage(x)]}

\* formSchema of ResponseAnalysis: the issues of the form values `data`
formSchema(data) ==
    ZStringOptional("jobRole", data.jobRole)
    \cup ZStringMin("candidateResponse", 0, data.candidateResponse, MinCandidateResponse,
                    "Response must be at least 10 characters.")
    \cup ZStringMin("jobDescription", 0, data.jobDescription, MinJobDescription,
                    "Job description must be at least 20 characters.")
    \cup ZStringMin("keywords", 0, data.keywords, MinKeywords,
                    "Please provide relevant keywords.")

RECURSIVE ResponseIssues(_, _)
\* the issues of elements i.. of the candidateResponses array
ResponseIssues(a, i) ==
    IF i > Len(a) THEN {}
    ELSE ZStringMin("candidateResponses", i, a[i].v.value, MinCandidateResponse,
                    "Response must be at least 10 characters.")
         \cup ResponseIssues(a, i + 1)

\* formSchema of PostInterviewInsights
insightsFormSchema(data) ==
    ZStringMin("jobDescription", 0, data.jobDescription, MinJobDescription,
               "Job description must be at least 20 characters.")
    \cup ResponseIssues(data.candidateResponses.v, 1)
    \cup (IF Len(data.candidateResponses.v) < 1
          THEN {[field |-> "candidateResponses", index |-> 0,
                 message |-> "At least one candidate response is required."]}
          ELSE {})

(***************************************************************************)
(* Toasts.                                                                 *)
(***************************************************************************)
Toast(title, variant) == [title |-> title, variant |-> variant]

JobDetailsGenerated == Toast("Job Details Generated", "default")

GenerationFailed == Toast("Generation Failed", "destructive")

AnalysisComplete == Toast("Analysis Complete", "default")

AnalysisFailed == Toast("Analysis Failed", "destructive")

InsightsGenerated == Toast("Insights Generated", "default")

InsightGenerationFailed == Toast("Insight Generation Failed", "destructive")

(***************************************************************************)
(* State.                                                                  *)
(***************************************************************************)
VARIABLES
    tab,                  \* the tab of Home whose content is mounted
    inflight,             \* the calls of the mounted form that have not been handled yet
    toasts,               \* the toasts the latest step raised
    selectedJobRole,      \* ResponseAnalysis: useState('')
    analysisResult,       \* ResponseAnalysis: useState(null)
    videoFile,            \* ResponseAnalysis: useState(null), the video chosen for review
    videoError,           \* ResponseAnalysis: useState(null), why a video was refused
    isDragging,           \* ResponseAnalysis: useState(false), a drag is over the drop zone
    isAnalyzing,          \* ResponseAnalysis: pending flag of startAnalysisTransition
    isGeneratingDetails,  \* ResponseAnalysis: pending flag of startDetailsTransition
    form,                 \* ResponseAnalysis: the values of useForm
    formState,            \* ResponseAnalysis: the formState of useForm
    insightsResult,       \* PostInterviewInsights: useState(null)
    isPending,            \* PostInterviewInsights: pending flag of startTransition
    insightsForm,         \* PostInterviewInsights: the values of useForm
    insightsFormState     \* PostInterviewInsights: the formState of useForm

vars ==
    <<tab, inflight, toasts, selectedJobRole, analysisResult, videoFile, videoError,
      isDragging, isAnalyzing, isGeneratingDetails, form, formState, insightsResult,
      isPending, insightsForm, insightsFormState>>

videoVars == <<videoFile, videoError, isDragging>>

raVars ==
    <<selectedJobRole, analysisResult, videoVars, isAnalyzing, isGeneratingDetails, form,
      formState>>

piVars == <<insightsResult, isPending, insightsForm, insightsFormState>>

\* defaultValues of ResponseAnalysis
DefaultForm ==
    [jobRole |-> EmptyString, candidateResponse |-> EmptyString,
     jobDescription |-> EmptyString, keywords |-> EmptyString]

\* defaultValues of PostInterviewInsights
DefaultInsightsForm ==
    [jobDescription |-> EmptyString,
     candidateResponses |-> JsArray(<<JsObject([value |-> EmptyString])>>)]

\* formState of a form that has just mounted, with values `issues` were found in
MountedFormState(issues) ==
    [isValid |-> issues = {}, isSubmitted |-> FALSE, isSubmitSuccessful |-> FALSE,
     errors |-> {}]

Init ==
    /\ tab = "realtime"
    /\ inflight = <<>>
    /\ toasts = <<>>
    /\ selectedJobRole = ""
    /\ analysisResult = Null
    /\ videoFile = Null
    /\ videoError = Null
    /\ isDragging = FALSE
    /\ isAnalyzing = FALSE
    /\ isGeneratingDetails = FALSE
    /\ form = DefaultForm
    /\ formState = MountedFormState(formSchema(DefaultForm))
    /\ insightsResult = Null
    /\ isPending = FALSE
    /\ insightsForm = DefaultInsightsForm
    /\ insightsFormState = MountedFormState(insightsFormSchema(DefaultInsightsForm))

(***************************************************************************)
(* Calls in flight.  A call is pending until the server has run its flow   *)
(* (`reply` is then the model's reply and `result` what the flow returned  *)
(* or threw); the continuation after `await` handles a settled call.       *)
(* `requests` counts the requests made to the model on the call's behalf,  *)
(* `prompt` is the prompt rendered for it.                                 *)
(***************************************************************************)
Call(fn, input) ==
    [fn |-> fn, input |-> input, status |-> "pending", requests |-> 0, prompt |-> <<>>,
     reply |-> Throw, result |-> Throw]

RemoveAt(seq, i) == SubSeq(seq, 1, i - 1) \o SubSeq(seq, i + 1, Len(seq))

\* whether a call of fn other than the i-th is still in flight
OthersInFlight(fn, i) == \E j \in 1..Len(inflight) : j # i /\ inflight[j].fn = fn

InFlight(fn) == {i \in 1..Len(inflight) : inflight[i].fn = fn}

\* formState.isValid after a programmatic update of the values: the form library
\* either keeps the flag it had or evaluates the schema again
IsValidAfterUpdate(old, issues) == {old, issues = {}}

\* the text a user types into a field: n characters c
TypedLengths(min) == {0} \cup ((min - 1)..(min + MaxOver))

(***************************************************************************)
(* The generative model: the replies `await prompt(input)` may produce.    *)
(***************************************************************************)
\* an object with the keys `present` of `samples`; the others hold `absent`
ObjectWith(samples, present, absent) ==
    JsObject([k \in DOMAIN samples |-> IF k \in present THEN samples[k] ELSE absent])

\* null, or an object with any subset of the keys of `samples`
Outputs(samples) ==
    {Null} \cup {ObjectWith(samples, present, absent) :
                    present \in SUBSET (DOMAIN samples), absent \in {Undefined, Null}}

\* sentiments the model may word: one naming both poles, a negative and a neutral one
OtherSentiments ==
    {<<"n", "e", "g", "a", "t", "i", "v", "e", ",", " ", "P", "O", "S", "I", "T", "I", "V", "E">>,
     <<"N", "e", "g", "a", "t", "i", "v", "e">>,
     <<"N", "e", "u", "t", "r", "a", "l">>}

AnalysisSamples ==
    [sentiment |-> JsString(<<"P", "o", "s", "i", "t", "i", "v", "e">>),
     clarity |-> JsString(<<"c", "l", "e", "a", "r">>),
     keywordRelevance |-> JsString(<<"h", "i", "g", "h">>),
     overallAssessment |-> JsString(<<"h", "i", "r", "e">>)]

\* the text the model writes for a role consists of that role's name
JobDetailsSamples(role) ==
    [jobDescription |-> Text(MinJobDescription, role),
     keywords |-> Text(MinKeywords, role)]

InsightsSamples(first, second) ==
    [overallSummary |-> JsString(<<"o", "k">>),
     strengths |-> JsArray(<<JsString(<<first>>), JsString(<<second>>)>>),
     weaknesses |-> JsArray(<<JsString(<<"w">>)>>),
     skillAssessment |->
        JsArray(<<JsObject([skill |-> JsString(<<"G", "o">>),
                            assessment |-> JsString(<<first>>)])>>),
     comparisonPoints |->
        JsArray(<<JsObject([metric |-> JsString(<<"d", "e", "p", "t", "h">>),
                            value |-> JsString(<<second>>)])>>)]

Replies(fn, input) ==
    {Throw} \cup
    {Return(o) : o \in
        CASE fn = "analyzeCandidateResponse" ->
                Outputs(AnalysisSamples)
                \cup {JsObject([AnalysisSamples EXCEPT !.sentiment = JsString(sentiment)]) :
                         sentiment \in OtherSentiments}
          [] fn = "generateJobDetails" -> Outputs(JobDetailsSamples(input.v.jobRole.v[1]))
          [] OTHER -> Outputs(InsightsSamples("a", "b"))
                      \cup {JsObject(InsightsSamples("b", "a"))}}

\* the server action: the flow of `fn` run on `input` with the model replying `reply`
Flow(fn, input, reply) ==
    CASE fn = "analyzeCandidateResponse" -> analyzeCandidateResponse(input, reply)
      [] fn = "generateJobDetails" -> generateJobDetails(input, reply)
      [] OTHER -> generatePostInterviewInsights(input, reply)

\* whether the input of a call parses against the inputSchema of its flow
InputSchema(fn, input) ==
    CASE fn = "analyzeCandidateResponse" -> AnalyzeCandidateResponseInputSchema(input)
      [] fn = "generateJobDetails" -> GenerateJobDetailsInputSchema(input)
      [] OTHER -> PostInterviewInsightsInputSchema(input)

(***************************************************************************)
(* The prompts (Handlebars templates).  A rendered prompt is a sequence of *)
(* segments: the literal text of the template, cut at its expressions, and *)
(* the values substituted for them.                                        *)
(***************************************************************************)
Literal(text) == [kind |-> "literal", text |-> <<text>>]

\* {{{x}}}: the value, unescaped
TripleStash(x) == [kind |-> "value", text |-> x.v]

RECURSIVE EachSkippingFirst(_, _)
\* an iteration that starts at the second element
EachSkippingFirst(a, i) ==
    IF i > Len(a) THEN <<>>
    ELSE (IF i = 1 THEN <<>> ELSE <<Literal("- "), TripleStash(a[i]), Literal("\n")>>)
         \o EachSkippingFirst(a, i + 1)

RECURSIVE Each(_, _)
\* {{#each candidateResponses}} - {{{this}}} {{/each}}, from element i on
Each(a, i) ==
    IF i > Len(a) THEN <<>>
    ELSE <<Literal("- "), TripleStash(a[i]), Literal("\n")>> \o Each(a, i + 1)

postInterviewInsightsPrompt(input) ==
    <<Literal("You are an expert Talent Acquisition Analyst AI."),
      Literal("Job Description:"), TripleStash(input.v.jobDescription),
      Literal("Candidate Responses:")>>
    \o Each(input.v.candidateResponses.v, 1)
    \o <<Literal("Please analyze the provided information")>>

analyzeCandidateResponsePrompt(input) ==
    <<Literal("You are an AI expert in analyzing candidate responses during interviews."),
      Literal("Job Description:"), TripleStash(input.v.jobDescription),
      Literal("Keywords:"), TripleStash(input.v.keywords),
      Literal("Candidate Response:"), TripleStash(input.v.candidateResponse),
      Literal("Provide an analysis")>>

generateJobDetailsPrompt(input) ==
    <<Literal("You are an expert hiring manager AI."),
      Literal("Job Role:"), TripleStash(input.v.jobRole),
      Literal("Generate the job description and keywords")>>

\* the prompt a flow renders for its input, once the input has parsed
RenderedPrompt(fn, input) ==
    IF ~InputSchema(fn, input) THEN <<>>
    ELSE CASE fn = "analyzeCandidateResponse" -> analyzeCandidateResponsePrompt(input)
           [] fn = "generateJobDetails" -> generateJobDetailsPrompt(input)
           [] OTHER -> postInterviewInsightsPrompt(input)

\* the `await prompt(input)` of a flow's function: how many requests it makes
PromptRequests(fn, input) == IF InputSchema(fn, input) THEN 1 ELSE 0

\* a server that asks the model once more when its first request failed
ServerRunsFlowRetrying(i) ==
    /\ inflight[i].status = "pending"
    /\ \E reply \in Replies(inflight[i].fn, inflight[i].input) :
          inflight' = [inflight EXCEPT ![i] =
                          IF ~reply.ok /\ @.requests = 0
                          THEN [@ EXCEPT !.requests = 1]
                          ELSE [fn |-> @.fn, input |-> @.input, status |-> "settled",
                                requests |-> @.requests + PromptRequests(@.fn, @.input),
                                prompt |-> RenderedPrompt(@.fn, @.input),
                                reply |-> reply, result |-> Flow(@.fn, @.input, reply)]]
    /\ UNCHANGED <<tab, raVars, piVars>>
    /\ toasts' = <<>>

\* the server runs the flow of the i-th call and its promise settles
ServerRunsFlow(i) ==
    /\ inflight[i].status = "pending"
    /\ \E reply \in Replies(inflight[i].fn, inflight[i].input) :
          inflight' = [inflight EXCEPT ![i] =
                          [fn |-> @.fn, input |-> @.input, status |-> "settled",
                           requests |-> @.requests + PromptRequests(@.fn, @.input),
                           prompt |-> RenderedPrompt(@.fn, @.input),
                           reply |-> reply, result |-> Flow(@.fn, @.input, reply)]]
    /\ UNCHANGED <<tab, raVars, piVars>>
    /\ toasts' = <<>>

(***************************************************************************)
(* ResponseAnalysis.                                                       *)
(***************************************************************************)
isLoading == isAnalyzing \/ isGeneratingDetails

\* a selector that only an analysis disables
SelectDisabledWhileAnalyzing == isAnalyzing

\* a selector that only a generation disables
SelectDisabledWhileGenerating == isGeneratingDetails

\* <Select ... disabled={isLoading}>
SelectDisabled == isLoading

\* inputs that only an analysis disables, with no Skeleton in their place
InputDisabledWhileAnalyzing == isAnalyzing

\* <Textarea ... disabled={isLoading} />, a Skeleton while details are generated
InputDisabled == isLoading

\* a submit button that only looks at the form's validity
SubmitDisabledIgnoringLoading == ~formState.isValid

\* <Button type="submit" disabled={isLoading || !form.formState.isValid}>
SubmitDisabled == isLoading \/ ~formState.isValid

\* the issues of `issues` at `field`
IssuesAt(issues, field) == {e \in issues : e.field = field}

\* formState after the user changed `field`: isValid follows the values, and a
\* form that was submitted validates the changed field again
FormStateAfterChange(state, issues, field) ==
    [isValid |-> issues = {},
     isSubmitted |-> state.isSubmitted,
     isSubmitSuccessful |-> state.isSubmitSuccessful,
     errors |-> IF state.isSubmitted
                THEN (state.errors \ IssuesAt(state.errors, field)) \cup IssuesAt(issues, field)
                ELSE state.errors]

\* an edit that also takes the displayed result away
EditFieldClearingResult(field, x) ==
    /\ tab = "realtime"
    /\ ~InputDisabled
    /\ x # form[field]
    /\ form' = [form EXCEPT ![field] = x]
    /\ formState' = FormStateAfterChange(formState, formSchema(form'), field)
    /\ analysisResult' = Null
    /\ UNCHANGED <<tab, inflight, selectedJobRole, isAnalyzing, isGeneratingDetails,
                   videoVars, piVars>>
    /\ toasts' = <<>>

\* the user types into candidateResponse, jobDescription or keywords
EditField(field, x) ==
    /\ tab = "realtime"
    /\ ~InputDisabled
    /\ x # form[field]
    /\ form' = [form EXCEPT ![field] = x]
    /\ formState' = FormStateAfterChange(formState, formSchema(form'), field)
    /\ UNCHANGED <<tab, inflight, selectedJobRole, analysisResult,
                   isAnalyzing, isGeneratingDetails, videoVars, piVars>>
    /\ toasts' = <<>>

\* an effect that forgets to clear keywords
ClearedForRoleKeepingKeywords(values) ==
    [values EXCEPT !.jobDescription = EmptyString]

\* an effect that forgets to clear jobDescription
ClearedForRoleKeepingDescription(values) ==
    [values EXCEPT !.keywords = EmptyString]

\* the effect of [selectedJobRole, form, toast]: the values it leaves in the form
\* before it starts the details transition
ClearedForRole(values) ==
    [values EXCEPT !.jobDescription = EmptyString, !.keywords = EmptyString]

\* a handler that generates details on every selection, changed or not
SelectJobRoleAlwaysGenerating(role) ==
    /\ tab = "realtime"
    /\ ~SelectDisabled
    /\ selectedJobRole' = role
    /\ form' = ClearedForRole([form EXCEPT !.jobRole = JsString(<<role>>)])
    /\ analysisResult' = Null
    /\ isGeneratingDetails' = TRUE
    /\ inflight' = Append(inflight,
            Call("generateJobDetails", JsObject([jobRole |-> JsString(<<role>>)])))
    /\ \E valid \in IsValidAfterUpdate(formState.isValid, formSchema(form')) :
          formState' = [formState EXCEPT !.isValid = valid]
    /\ UNCHANGED <<tab, isAnalyzing, videoVars, piVars>>
    /\ toasts' = <<>>

\* handleJobRoleChange(role), and the effect when selectedJobRole changed
SelectJobRole(role) ==
    /\ tab = "realtime"
    /\ ~SelectDisabled
    /\ selectedJobRole' = role
    /\ IF role # selectedJobRole
       THEN /\ form' = ClearedForRole([form EXCEPT !.jobRole = JsString(<<role>>)])
            /\ analysisResult' = Null
            /\ isGeneratingDetails' = TRUE
            /\ inflight' = Append(inflight,
                    Call("generateJobDetails", JsObject([jobRole |-> JsString(<<role>>)])))
            /\ \E valid \in IsValidAfterUpdate(formState.isValid, formSchema(form')) :
                  formState' = [formState EXCEPT !.isValid = valid]
       ELSE /\ form' = [form EXCEPT !.jobRole = JsString(<<role>>)]
            /\ UNCHANGED <<analysisResult, isGeneratingDetails, inflight, formState>>
    /\ UNCHANGED <<tab, isAnalyzing, videoVars, piVars>>
    /\ toasts' = <<>>

\* a continuation whose catch block takes the selection back
DetailsContinuationClearingRole(i) ==
    /\ inflight[i].fn = "generateJobDetails"
    /\ inflight[i].status = "settled"
    /\ LET result == inflight[i].result
       IN  IF result.ok /\ ~IsNullish(result.value)
           THEN /\ form' = [form EXCEPT !.jobDescription = result.value.v.jobDescription,
                                        !.keywords = result.value.v.keywords]
                /\ toasts' = <<JobDetailsGenerated>>
                /\ \E valid \in IsValidAfterUpdate(formState.isValid, formSchema(form')) :
                      formState' = [formState EXCEPT !.isValid = valid]
                /\ UNCHANGED selectedJobRole
           ELSE /\ toasts' = <<GenerationFailed>>
                /\ selectedJobRole' = ""
                /\ UNCHANGED <<form, formState>>
    /\ isGeneratingDetails' = OthersInFlight("generateJobDetails", i)
    /\ inflight' = RemoveAt(inflight, i)
    /\ UNCHANGED <<tab, analysisResult, isAnalyzing, videoVars, piVars>>

\* a continuation after which the details transition stays pending
DetailsContinuationStayingPending(i) ==
    /\ inflight[i].fn = "generateJobDetails"
    /\ inflight[i].status = "settled"
    /\ LET result == inflight[i].result
       IN  IF result.ok /\ ~IsNullish(result.value)
           THEN /\ form' = [form EXCEPT !.jobDescription = result.value.v.jobDescription,
                                        !.keywords = result.value.v.keywords]
                /\ toasts' = <<JobDetailsGenerated>>
                /\ \E valid \in IsValidAfterUpdate(formState.isValid, formSchema(form')) :
                      formState' = [formState EXCEPT !.isValid = valid]
           ELSE /\ toasts' = <<GenerationFailed>>
                /\ UNCHANGED <<form, formState>>
    /\ inflight' = RemoveAt(inflight, i)
    /\ UNCHANGED <<tab, selectedJobRole, analysisResult, isAnalyzing, isGeneratingDetails,
                   videoVars, piVars>>

\* the continuation of startDetailsTransition's callback for the settled i-th call
DetailsContinuation(i) ==
    /\ inflight[i].fn = "generateJobDetails"
    /\ inflight[i].status = "settled"
    /\ LET result == inflight[i].result
       IN  IF result.ok /\ ~IsNullish(result.value)
           THEN /\ form' = [form EXCEPT !.jobDescription = result.value.v.jobDescription,
                                        !.keywords = result.value.v.keywords]
                /\ toasts' = <<JobDetailsGenerated>>
                /\ \E valid \in IsValidAfterUpdate(formState.isValid, formSchema(form')) :
                      formState' = [formState EXCEPT !.isValid = valid]
           ELSE /\ toasts' = <<GenerationFailed>>
                /\ UNCHANGED <<form, formState>>
    /\ isGeneratingDetails' = OthersInFlight("generateJobDetails", i)
    /\ inflight' = RemoveAt(inflight, i)
    /\ UNCHANGED <<tab, selectedJobRole, analysisResult, isAnalyzing, videoVars, piVars>>

\* a payload that passes the whole form data on
AnalysisInputWithJobRole(data) ==
    JsObject([candidateResponse |-> data.candidateResponse,
              jobDescription |-> data.jobDescription,
              keywords |-> data.keywords,
              jobRole |-> data.jobRole])

\* the payload onSubmit builds from the validated form values
AnalysisInput(data) ==
    JsObject([candidateResponse |-> data.candidateResponse,
              jobDescription |-> data.jobDescription,
              keywords |-> data.keywords])

\* a submit handler that calls onSubmit without validating
HandleSubmitWithoutValidation ==
    /\ tab = "realtime"
    /\ ~SubmitDisabled
    /\ formState' = [formState EXCEPT !.isSubmitted = TRUE, !.isSubmitSuccessful = TRUE,
                                      !.errors = {}]
    /\ analysisResult' = Null
    /\ isAnalyzing' = TRUE
    /\ inflight' = Append(inflight, Call("analyzeCandidateResponse", AnalysisInput(form)))
    /\ UNCHANGED <<tab, selectedJobRole, isGeneratingDetails, form, videoVars, piVars>>
    /\ toasts' = <<>>

\* form.handleSubmit(onSubmit): validation, then onSubmit when it passes
HandleSubmit ==
    /\ tab = "realtime"
    /\ ~SubmitDisabled
    /\ LET issues == formSchema(form)
       IN  /\ \E valid \in IsValidAfterUpdate(formState.isValid, issues) :
                 formState' = [isValid |-> valid, isSubmitted |-> TRUE,
                               isSubmitSuccessful |-> issues = {}, errors |-> issues]
           /\ IF issues = {}
              THEN /\ analysisResult' = Null
                   /\ isAnalyzing' = TRUE
                   /\ inflight' = Append(inflight,
                           Call("analyzeCandidateResponse", AnalysisInput(form)))
              ELSE UNCHANGED <<analysisResult, isAnalyzing, inflight>>
    /\ UNCHANGED <<tab, selectedJobRole, isGeneratingDetails, form, videoVars, piVars>>
    /\ toasts' = <<>>

\* a continuation whose catch block reports the failure as an error of a field
AnalysisContinuationSettingFieldError(i) ==
    /\ inflight[i].fn = "analyzeCandidateResponse"
    /\ inflight[i].status = "settled"
    /\ LET result == inflight[i].result
       IN  IF result.ok
           THEN /\ analysisResult' = result.value
                /\ toasts' = <<AnalysisComplete>>
                /\ UNCHANGED formState
           ELSE /\ toasts' = <<AnalysisFailed>>
                /\ formState' =
                      [formState EXCEPT !.errors =
                          @ \cup {[field |-> "candidateResponse", index |-> 0,
                                   message |-> "Analysis Failed"]}]
                /\ UNCHANGED analysisResult
    /\ isAnalyzing' = OthersInFlight("analyzeCandidateResponse", i)
    /\ inflight' = RemoveAt(inflight, i)
    /\ UNCHANGED <<tab, selectedJobRole, isGeneratingDetails, form, videoVars, piVars>>

\* a continuation whose catch block also resets the form
AnalysisContinuationResettingForm(i) ==
    /\ inflight[i].fn = "analyzeCandidateResponse"
    /\ inflight[i].status = "settled"
    /\ LET result == inflight[i].result
       IN  IF result.ok
           THEN /\ analysisResult' = result.value
                /\ toasts' = <<AnalysisComplete>>
                /\ UNCHANGED form
           ELSE /\ toasts' = <<AnalysisFailed>>
                /\ form' = DefaultForm
                /\ UNCHANGED analysisResult
    /\ isAnalyzing' = OthersInFlight("analyzeCandidateResponse", i)
    /\ inflight' = RemoveAt(inflight, i)
    /\ UNCHANGED <<tab, selectedJobRole, isGeneratingDetails, formState, videoVars, piVars>>

\* the continuation of startAnalysisTransition's callback for the settled i-th call
AnalysisContinuation(i) ==
    /\ inflight[i].fn = "analyzeCandidateResponse"
    /\ inflight[i].status = "settled"
    /\ LET result == inflight[i].result
       IN  IF result.ok
           THEN /\ analysisResult' = result.value
                /\ toasts' = <<AnalysisComplete>>
           ELSE /\ toasts' = <<AnalysisFailed>>
                /\ UNCHANGED analysisResult
    /\ isAnalyzing' = OthersInFlight("analyzeCandidateResponse", i)
    /\ inflight' = RemoveAt(inflight, i)
    /\ UNCHANGED <<tab, selectedJobRole, isGeneratingDetails, form, formState,
                   videoVars, piVars>>

(***************************************************************************)
(* ResponseAnalysis: the display of the sentiment.                         *)
(***************************************************************************)
UpperCaseLetters ==
    <<"A", "B", "C", "D", "E", "F", "G", "H", "I", "J", "K", "L", "M",
      "N", "O", "P", "Q", "R", "S", "T", "U", "V", "W", "X", "Y", "Z">>

LowerCaseLetters ==
    <<"a", "b", "c", "d", "e", "f", "g", "h", "i", "j", "k", "l", "m",
      "n", "o", "p", "q", "r", "s", "t", "u", "v", "w", "x", "y", "z">>

\* String.prototype.toLowerCase, on a sequence of characters
toLowerCase(s) ==
    [i \in 1..Len(s) |->
        IF \E l \in 1..Len(UpperCaseLetters) : UpperCaseLetters[l] = s[i]
        THEN LowerCaseLetters[CHOOSE l \in 1..Len(UpperCaseLetters) : UpperCaseLetters[l] = s[i]]
        ELSE s[i]]

\* String.prototype.includes
includes(s, search) ==
    \E i \in 0..(Len(s) - Len(search)) : SubSeq(s, i + 1, i + Len(search)) = search

positive == <<"p", "o", "s", "i", "t", "i", "v", "e">>

negative == <<"n", "e", "g", "a", "t", "i", "v", "e">>

\* sentiment?.toLowerCase(): undefined for a null or undefined sentiment
lowerCased(sentiment) ==
    IF IsNullish(sentiment) THEN Undefined ELSE JsString(toLowerCase(sentiment.v))

\* an icon chosen with the negative test first
renderSentimentIconNegativeFirst(sentiment) ==
    LET lowerSentiment == NullishCoalesce(lowerCased(sentiment), EmptyString).v
    IN  IF includes(lowerSentiment, negative)
        THEN [icon |-> "AlertCircle", className |-> "h-4 w-4 text-red-500"]
        ELSE IF includes(lowerSentiment, positive)
             THEN [icon |-> "Smile", className |-> "h-4 w-4 text-green-500"]
             ELSE [icon |-> "Info", className |-> "h-4 w-4 text-muted-foreground"]

\* renderSentimentIcon(sentiment), with lowerSentiment = sentiment?.toLowerCase() || ''
renderSentimentIcon(sentiment) ==
    LET lowerSentiment == NullishCoalesce(lowerCased(sentiment), EmptyString).v
    IN  IF includes(lowerSentiment, positive)
        THEN [icon |-> "Smile", className |-> "h-4 w-4 text-green-500"]
        ELSE IF includes(lowerSentiment, negative)
             THEN [icon |-> "AlertCircle", className |-> "h-4 w-4 text-red-500"]
             ELSE [icon |-> "Info", className |-> "h-4 w-4 text-muted-foreground"]

\* the valueClassName of the Sentiment card: a chain cut short by ?. is undefined,
\* which the conditional takes as false
valueClassName(sentiment) ==
    LET lowered == lowerCased(sentiment)
    IN  IF ~IsNullish(lowered) /\ includes(lowered.v, positive) THEN "text-green-600"
        ELSE IF ~IsNullish(lowered) /\ includes(lowered.v, negative) THEN "text-red-600"
        ELSE ""

\* whether the result cards are rendered (not their skeletons)
ResultDisplayed == ~isAnalyzing /\ analysisResult # Null

\* the Sentiment card as rendered from analysisResult
SentimentCard ==
    [value |-> analysisResult.v.sentiment,
     icon |-> renderSentimentIcon(analysisResult.v.sentiment),
     valueClassName |-> valueClassName(analysisResult.v.sentiment)]

(***************************************************************************)
(* ResponseAnalysis: the video of the response, kept for review only.      *)
(***************************************************************************)
\* a File with the MIME type and the size in bytes the browser reports
File(type, size) == [t |-> "file", v |-> [type |-> type, size |-> size]]

\* ACCEPTED_VIDEO_TYPES.includes(type)
Includes(list, x) == \E i \in 1..Len(list) : list[i] = x

InvalidFileType == JsString(<<"Invalid file type. Please upload a video (mp4, webm, quicktime, x-msvideo, avi).">>)

FileSizeExceeds == JsString(<<"File size exceeds the 20MB limit.">>)

\* a validation that looks at the type only
handleFileValidationOfTypeOnly(file) ==
    IF file = Null THEN [valid |-> TRUE, error |-> Null]
    ELSE IF ~Includes(ACCEPTED_VIDEO_TYPES, file.v.type)
         THEN [valid |-> FALSE, error |-> InvalidFileType]
         ELSE [valid |-> TRUE, error |-> Null]

\* handleFileValidation(file): whether the file passes, and the videoError it sets
handleFileValidation(file) ==
    IF file = Null THEN [valid |-> TRUE, error |-> Null]
    ELSE IF ~Includes(ACCEPTED_VIDEO_TYPES, file.v.type)
         THEN [valid |-> FALSE, error |-> InvalidFileType]
         ELSE IF file.v.size > MAX_FILE_SIZE_BYTES
              THEN [valid |-> FALSE, error |-> FileSizeExceeds]
              ELSE [valid |-> TRUE, error |-> Null]

\* handleFileChange: the user closes the file dialog of the (enabled) input with
\* `file` chosen, or with none
handleFileChange(file) ==
    /\ tab = "realtime"
    /\ ~isLoading
    /\ LET checked == handleFileValidation(file)
       IN  /\ videoError' = checked.error
           /\ videoFile' = IF checked.valid THEN file ELSE Null
    /\ UNCHANGED <<tab, inflight, selectedJobRole, analysisResult, isDragging, isAnalyzing,
                   isGeneratingDetails, form, formState, piVars>>
    /\ toasts' = <<>>

\* handleDrop: `file`, or nothing that is a file, is dropped on the drop zone
handleDrop(file) ==
    /\ tab = "realtime"
    /\ isDragging' = FALSE
    /\ LET checked == handleFileValidation(file)
       IN  /\ videoError' = checked.error
           /\ videoFile' = IF checked.valid THEN file ELSE Null
    /\ UNCHANGED <<tab, inflight, selectedJobRole, analysisResult, isAnalyzing,
                   isGeneratingDetails, form, formState, piVars>>
    /\ toasts' = <<>>

\* handleDragEnter
handleDragEnter ==
    /\ tab = "realtime"
    /\ isDragging' = TRUE
    /\ UNCHANGED <<tab, inflight, selectedJobRole, analysisResult, videoFile, videoError,
                   isAnalyzing, isGeneratingDetails, form, formState, piVars>>
    /\ toasts' = <<>>

\* handleDragLeave, when the drag leaves the drop zone
handleDragLeave ==
    /\ tab = "realtime"
    /\ isDragging' = FALSE
    /\ UNCHANGED <<tab, inflight, selectedJobRole, analysisResult, videoFile, videoError,
                   isAnalyzing, isGeneratingDetails, form, formState, piVars>>
    /\ toasts' = <<>>

\* removeVideoFile, from the Remove button shown with the stored file
removeVideoFile ==
    /\ tab = "realtime"
    /\ videoFile # Null
    /\ ~isLoading
    /\ videoFile' = Null
    /\ videoError' = Null
    /\ UNCHANGED <<tab, inflight, selectedJobRole, analysisResult, isDragging, isAnalyzing,
                   isGeneratingDetails, form, formState, piVars>>
    /\ toasts' = <<>>

(***************************************************************************)
(* PostInterviewInsights.                                                  *)
(***************************************************************************)
\* <Button type="submit" disabled={isPending || !form.formState.isValid}>
InsightsSubmitDisabled == isPending \/ ~insightsFormState.isValid

\* fields.length
FieldsLength == Len(insightsForm.candidateResponses.v)

\* the issues of `issues` at element `index` of candidateResponses
IssuesAtIndex(issues, index) ==
    {e \in issues : e.field = "candidateResponses" /\ e.index = index}

\* the user types into the job description
EditInsightsJobDescription(x) ==
    /\ tab = "post-interview"
    /\ ~isPending
    /\ x # insightsForm.jobDescription
    /\ insightsForm' = [insightsForm EXCEPT !.jobDescription = x]
    /\ insightsFormState' =
          FormStateAfterChange(insightsFormState, insightsFormSchema(insightsForm'),
                               "jobDescription")
    /\ UNCHANGED <<tab, inflight, raVars, insightsResult, isPending>>
    /\ toasts' = <<>>

\* the user types into the index-th response
EditCandidateResponse(index, x) ==
    /\ tab = "post-interview"
    /\ ~isPending
    /\ index \in 1..FieldsLength
    /\ x # insightsForm.candidateResponses.v[index].v.value
    /\ insightsForm' =
          [insightsForm EXCEPT !.candidateResponses.v[index] = JsObject([value |-> x])]
    /\ LET issues == insightsFormSchema(insightsForm')
       IN  insightsFormState' =
              [isValid |-> issues = {},
               isSubmitted |-> insightsFormState.isSubmitted,
               isSubmitSuccessful |-> insightsFormState.isSubmitSuccessful,
               errors |-> IF insightsFormState.isSubmitted
                          THEN (insightsFormState.errors
                                    \ IssuesAtIndex(insightsFormState.errors, index))
                               \cup IssuesAtIndex(issues, index)
                          ELSE insightsFormState.errors]
    /\ UNCHANGED <<tab, inflight, raVars, insightsResult, isPending>>
    /\ toasts' = <<>>

\* onClick={() => append({ value: '' })}
AppendResponse ==
    /\ tab = "post-interview"
    /\ ~isPending
    /\ FieldsLength < MaxResponses
    /\ insightsForm' =
          [insightsForm EXCEPT !.candidateResponses.v =
              Append(@, JsObject([value |-> EmptyString]))]
    /\ \E valid \in IsValidAfterUpdate(insightsFormState.isValid,
                                       insightsFormSchema(insightsForm')) :
          insightsFormState' = [insightsFormState EXCEPT !.isValid = valid]
    /\ UNCHANGED <<tab, inflight, raVars, insightsResult, isPending>>
    /\ toasts' = <<>>

\* the errors left when element `index` is removed: its own go, later ones move up
ErrorsAfterRemove(errors, index) ==
    {e \in errors : e.field # "candidateResponses" \/ e.index < index}
    \cup {[e EXCEPT !.index = @ - 1] :
             e \in {d \in errors : d.field = "candidateResponses" /\ d.index > index}}

\* a remove control that is rendered for the last remaining response too
RemoveResponseEvenLast(index) ==
    /\ tab = "post-interview"
    /\ ~isPending
    /\ index \in 1..FieldsLength
    /\ insightsForm' =
          [insightsForm EXCEPT !.candidateResponses.v = RemoveAt(@, index)]
    /\ \E valid \in IsValidAfterUpdate(insightsFormState.isValid,
                                       insightsFormSchema(insightsForm')) :
          insightsFormState' =
              [insightsFormState EXCEPT !.isValid = valid,
                                        !.errors = ErrorsAfterRemove(@, index)]
    /\ UNCHANGED <<tab, inflight, raVars, insightsResult, isPending>>
    /\ toasts' = <<>>

\* onClick={() => remove(index)}, rendered when fields.length > 1
RemoveResponse(index) ==
    /\ tab = "post-interview"
    /\ ~isPending
    /\ FieldsLength > 1
    /\ index \in 1..FieldsLength
    /\ insightsForm' =
          [insightsForm EXCEPT !.candidateResponses.v = RemoveAt(@, index)]
    /\ \E valid \in IsValidAfterUpdate(insightsFormState.isValid,
                                       insightsFormSchema(insightsForm')) :
          insightsFormState' =
              [insightsFormState EXCEPT !.isValid = valid,
                                        !.errors = ErrorsAfterRemove(@, index)]
    /\ UNCHANGED <<tab, inflight, raVars, insightsResult, isPending>>
    /\ toasts' = <<>>

\* data.candidateResponses.map(response => response.value)
ResponseValues(responses) == JsArray([i \in 1..Len(responses.v) |-> responses.v[i].v.value])

formattedInput(data) ==
    JsObject([jobDescription |-> data.jobDescription,
              candidateResponses |-> ResponseValues(data.candidateResponses)])

\* an onSubmit that leaves the previous result on display
HandleSubmitInsightsKeepingResult ==
    /\ tab = "post-interview"
    /\ ~InsightsSubmitDisabled
    /\ LET issues == insightsFormSchema(insightsForm)
       IN  /\ \E valid \in IsValidAfterUpdate(insightsFormState.isValid, issues) :
                 insightsFormState' =
                     [isValid |-> valid, isSubmitted |-> TRUE,
                      isSubmitSuccessful |-> issues = {}, errors |-> issues]
           /\ IF issues = {}
              THEN /\ isPending' = TRUE
                   /\ inflight' = Append(inflight,
                           Call("generatePostInterviewInsights", formattedInput(insightsForm)))
                   /\ UNCHANGED insightsResult
              ELSE UNCHANGED <<insightsResult, isPending, inflight>>
    /\ UNCHANGED <<tab, raVars, insightsForm>>
    /\ toasts' = <<>>

\* form.handleSubmit(onSubmit): validation, then onSubmit when it passes
HandleSubmitInsights ==
    /\ tab = "post-interview"
    /\ ~InsightsSubmitDisabled
    /\ LET issues == insightsFormSchema(insightsForm)
       IN  /\ \E valid \in IsValidAfterUpdate(insightsFormState.isValid, issues) :
                 insightsFormState' =
                     [isValid |-> valid, isSubmitted |-> TRUE,
                      isSubmitSuccessful |-> issues = {}, errors |-> issues]
           /\ IF issues = {}
              THEN /\ insightsResult' = Null
                   /\ isPending' = TRUE
                   /\ inflight' = Append(inflight,
                           Call("generatePostInterviewInsights", formattedInput(insightsForm)))
              ELSE UNCHANGED <<insightsResult, isPending, inflight>>
    /\ UNCHANGED <<tab, raVars, insightsForm>>
    /\ toasts' = <<>>

\* a continuation whose catch block only logs
InsightsContinuationSilentOnFailure(i) ==
    /\ inflight[i].fn = "generatePostInterviewInsights"
    /\ inflight[i].status = "settled"
    /\ LET result == inflight[i].result
       IN  IF result.ok
           THEN /\ insightsResult' = result.value
                /\ toasts' = <<InsightsGenerated>>
           ELSE /\ toasts' = <<>>
                /\ UNCHANGED insightsResult
    /\ isPending' = OthersInFlight("generatePostInterviewInsights", i)
    /\ inflight' = RemoveAt(inflight, i)
    /\ UNCHANGED <<tab, selectedJobRole, raVars, insightsForm, insightsFormState>>

\* the continuation of startTransition's callback for the settled i-th call
InsightsContinuation(i) ==
    /\ inflight[i].fn = "generatePostInterviewInsights"
    /\ inflight[i].status = "settled"
    /\ LET result == inflight[i].result
       IN  IF result.ok
           THEN /\ insightsResult' = result.value
                /\ toasts' = <<InsightsGenerated>>
           ELSE /\ toasts' = <<InsightGenerationFailed>>
                /\ UNCHANGED insightsResult
    /\ isPending' = OthersInFlight("generatePostInterviewInsights", i)
    /\ inflight' = RemoveAt(inflight, i)
    /\ UNCHANGED <<tab, selectedJobRole, raVars, insightsForm, insightsFormState>>

(***************************************************************************)
(* Home: the tabs.  Only the selected tab's content is mounted; leaving a  *)
(* tab unmounts its form, whose state is lost.  The calls the form had     *)
(* outstanding find no mounted state to change when they settle; they      *)
(* leave the model with the form.                                          *)
(***************************************************************************)
\* the user selects the other tab
SwitchTab(t) ==
    /\ t # tab
    /\ tab' = t
    /\ inflight' = <<>>
    /\ toasts' = <<>>
    /\ selectedJobRole' = ""
    /\ analysisResult' = Null
    /\ videoFile' = Null
    /\ videoError' = Null
    /\ isDragging' = FALSE
    /\ isAnalyzing' = FALSE
    /\ isGeneratingDetails' = FALSE
    /\ form' = DefaultForm
    /\ formState' = MountedFormState(formSchema(DefaultForm))
    /\ insightsResult' = Null
    /\ isPending' = FALSE
    /\ insightsForm' = DefaultInsightsForm
    /\ insightsFormState' = MountedFormState(insightsFormSchema(DefaultInsightsForm))

(***************************************************************************)
(* The specification.                                                      *)
(***************************************************************************)
\* what the user may type into the fields
TypedJobDescription == {Text(n, "d") : n \in TypedLengths(MinJobDescription)}

TypedKeywords == {Text(n, "k") : n \in TypedLengths(MinKeywords)}

TypedResponse == {Text(n, "c") : n \in TypedLengths(MinCandidateResponse)}

\* the insights form takes several responses: a second text that differs from the
\* first of its length
TypedResponses ==
    {Text(n, "a") : n \in TypedLengths(MinCandidateResponse)}
    \cup {Text(MinCandidateResponse, "b")}

\* the files a user may offer: an accepted and a refused type, the largest accepted
\* size and the first refused one; or no file
OfferedFiles ==
    {File(type, size) : type \in {"video/mp4", "image/png"},
                        size \in {MAX_FILE_SIZE_BYTES, MAX_FILE_SIZE_BYTES + 1}}
    \cup {Null}

Next ==
    \/ \E x \in TypedJobDescription : EditField("jobDescription", x)
    \/ \E x \in TypedKeywords : EditField("keywords", x)
    \/ \E x \in TypedResponse : EditField("candidateResponse", x)
    \/ \E role \in Roles : SelectJobRole(role)
    \/ HandleSubmit
    \/ \E i \in 1..Len(inflight) : ServerRunsFlow(i)
    \/ \E i \in 1..Len(inflight) : DetailsContinuation(i)
    \/ \E i \in 1..Len(inflight) : AnalysisContinuation(i)
    \/ \E file \in OfferedFiles : handleFileChange(file)
    \/ \E file \in OfferedFiles : handleDrop(file)
    \/ handleDragEnter
    \/ handleDragLeave
    \/ removeVideoFile
    \/ \E x \in TypedJobDescription : EditInsightsJobDescription(x)
    \/ \E i \in 1..MaxResponses, x \in TypedResponses : EditCandidateResponse(i, x)
    \/ AppendResponse
    \/ \E i \in 1..MaxResponses : RemoveResponse(i)
    \/ HandleSubmitInsights
    \/ \E i \in 1..Len(inflight) : InsightsContinuation(i)
    \/ \E t \in {"realtime", "post-interview"} : SwitchTab(t)

Spec == Init /\ [][Next]_vars

\* The server action of a call in flight returns or throws, and the continuation of
\* a settled call runs: the request ends one way or the other, and the event loop
\* resumes the callback that awaits it.  Nothing obliges the user to act.
LiveSpec ==
    /\ Spec
    /\ WF_vars(\E i \in 1..Len(inflight) : ServerRunsFlow(i))
    /\ WF_vars(\E i \in 1..Len(inflight) : DetailsContinuation(i))
    /\ WF_vars(\E i \in 1..Len(inflight) : AnalysisContinuation(i))
    /\ WF_vars(\E i \in 1..Len(inflight) : InsightsContinuation(i))

(***************************************************************************)
(* The claims.                                                             *)
(***************************************************************************)
\* the settled calls of fn the mounted form has not handled yet
Settled(fn) == {i \in InFlight(fn) : inflight[i].status = "settled"}

\* whether the model's output holds a value under key k
Supplied(output, k) ==
    /\ output.t = "object"
    /\ output.v[k].t # "undefined"
    /\ output.v[k].t # "null"

SequenceKeys == {"strengths", "weaknesses", "skillAssessment", "comparisonPoints"}

\* C1: whenever the model replied to an insights request with at least one response
\* (with no output, or with an object lacking any of its keys), the flow returns a
\* result whose four sequence fields are arrays, empty where the model supplied none,
\* and whose overallSummary is "No summary generated." where the model supplied none;
\* and a result the PostInterviewInsights component holds has four arrays.
C1_InsightsDefaults ==
    /\ \A i \in Settled("generatePostInterviewInsights") :
          LET c == inflight[i]
          IN  (c.reply.ok /\ Len(c.input.v.candidateResponses.v) >= 1) =>
                 /\ c.result.ok
                 /\ c.result.value.t = "object"
                 /\ \A k \in SequenceKeys :
                       /\ c.result.value.v[k].t = "array"
                       /\ ~Supplied(c.reply.value, k) => Len(c.result.value.v[k].v) = 0
                 /\ ~Supplied(c.reply.value, "overallSummary") =>
                       c.result.value.v.overallSummary = NoSummaryGenerated
    /\ insightsResult # Null =>
          \A k \in SequenceKeys : insightsResult.v[k].t = "array"

\* C1's case: the component holds the result of a call the model gave no output to
C1_Witness ==
    /\ insightsResult # Null
    /\ insightsResult.v.overallSummary = NoSummaryGenerated
    /\ \A k \in SequenceKeys : insightsResult.v[k] = JsArray(<<>>)

AnalysisKeys == {"sentiment", "clarity", "keywordRelevance", "overallAssessment"}

\* C2: whatever the model replied (a full output, a partial one, none, a failure), a
\* settled analyzeCandidateResponse call either failed or returned an object whose
\* four fields are all strings, and the result the component holds is such an object.
C2_AnalysisAllOrNothing ==
    /\ \A i \in Settled("analyzeCandidateResponse") :
          LET c == inflight[i]
          IN  c.result.ok =>
                 /\ c.result.value.t = "object"
                 /\ \A k \in AnalysisKeys : c.result.value.v[k].t = "string"
    /\ analysisResult # Null =>
          /\ analysisResult.t = "object"
          /\ \A k \in AnalysisKeys : analysisResult.v[k].t = "string"

\* C2's case: the model left fields out, and the call failed as a whole
C2_Witness ==
    \E i \in Settled("analyzeCandidateResponse") :
        /\ inflight[i].reply.ok
        /\ inflight[i].reply.value.t = "object"
        /\ \E k \in AnalysisKeys : ~Supplied(inflight[i].reply.value, k)
        /\ \E k \in AnalysisKeys : Supplied(inflight[i].reply.value, k)
        /\ ~inflight[i].result.ok

\* the generateJobDetails calls among the calls q
GenerationCalls(q) == {i \in 1..Len(q) : q[i].fn = "generateJobDetails"}

\* C3: a step that selects a job role, or that issues a generateJobDetails call,
\* leaves jobDescription and keywords empty and analysisResult null, and the call
\* it issued is the one for the selected role: no call is outstanding with any of
\* the three still holding what it held before.
C3_ClearedBeforeGeneration ==
    [][(\/ Cardinality(GenerationCalls(inflight')) > Cardinality(GenerationCalls(inflight))
        \/ (selectedJobRole' # selectedJobRole /\ selectedJobRole' # ""))
       => /\ form'.jobDescription = JsString(<<>>)
          /\ form'.keywords = JsString(<<>>)
          /\ analysisResult' = Null
          /\ Len(inflight') = Len(inflight) + 1
          /\ inflight'[Len(inflight')].fn = "generateJobDetails"
          /\ inflight'[Len(inflight')].status = "pending"
          /\ inflight'[Len(inflight')].input.v.jobRole.v = <<selectedJobRole'>>]_vars

\* C3's case: a generation call is outstanding in a form whose fields had been
\* filled in and submitted before the role was selected
C3_Witness ==
    /\ InFlight("generateJobDetails") # {}
    /\ formState.isSubmitSuccessful
    /\ form.jobDescription = JsString(<<>>)
    /\ form.keywords = JsString(<<>>)
    /\ analysisResult = Null

\* C4: at most one generateJobDetails call and at most one analyzeCandidateResponse
\* call of the ResponseAnalysis form, and at most one generatePostInterviewInsights
\* call of the PostInterviewInsights form, are outstanding, and while one is, the
\* control that issues it is disabled.
C4_OneCallInFlight ==
    /\ Cardinality(InFlight("generateJobDetails")) <= 1
    /\ Cardinality(InFlight("analyzeCandidateResponse")) <= 1
    /\ Cardinality(InFlight("generatePostInterviewInsights")) <= 1
    /\ InFlight("generateJobDetails") # {} => SelectDisabled
    /\ InFlight("analyzeCandidateResponse") # {} => SubmitDisabled
    /\ InFlight("generatePostInterviewInsights") # {} => InsightsSubmitDisabled

\* C4's case: an analysis is outstanding and the valid form's submit button is disabled
C4_Witness ==
    /\ InFlight("analyzeCandidateResponse") # {}
    /\ formState.isValid
    /\ SubmitDisabled

\* the characters of a string
Characters(x) == {x.v[j] : j \in 1..Len(x.v)}

\* C5: the payload of an outstanding analyzeCandidateResponse call holds no text the
\* model wrote for a role other than the selected one.
C5_NoCrossRolePayload ==
    \A i \in InFlight("analyzeCandidateResponse") :
        \A role \in Roles \ {selectedJobRole} :
            /\ role \notin Characters(inflight[i].input.v.jobDescription)
            /\ role \notin Characters(inflight[i].input.v.keywords)

\* C5's case: the description generated for the selected role is submitted with
\* keywords the user typed
C5_Witness ==
    \E i \in InFlight("analyzeCandidateResponse") :
        /\ selectedJobRole \in Roles
        /\ Characters(inflight[i].input.v.jobDescription) = {selectedJobRole}
        /\ Characters(inflight[i].input.v.keywords) = {"k"}

\* C6: validation of the ResponseAnalysis form reports "Response must be at least 10
\* characters." exactly when candidateResponse has fewer than 10 characters, "Job
\* description must be at least 20 characters." exactly when jobDescription has fewer
\* than 20 and "Please provide relevant keywords." exactly when keywords has fewer
\* than 3; it passes exactly when none applies; every error the form shows is one
\* of these three, and every analysis call carries values that meet the minimums.
C6_ValidationThresholds ==
    LET issues == formSchema(form)
        Reports(field, message) ==
            [field |-> field, index |-> 0, message |-> message] \in issues
        Messages ==
            {[field |-> "candidateResponse", index |-> 0,
              message |-> "Response must be at least 10 characters."],
             [field |-> "jobDescription", index |-> 0,
              message |-> "Job description must be at least 20 characters."],
             [field |-> "keywords", index |-> 0,
              message |-> "Please provide relevant keywords."]}
    IN  /\ Reports("candidateResponse", "Response must be at least 10 characters.")
              <=> Len(form.candidateResponse.v) < 10
        /\ Reports("jobDescription", "Job description must be at least 20 characters.")
              <=> Len(form.jobDescription.v) < 20
        /\ Reports("keywords", "Please provide relevant keywords.")
              <=> Len(form.keywords.v) < 3
        /\ issues = {} <=> /\ Len(form.candidateResponse.v) >= 10
                           /\ Len(form.jobDescription.v) >= 20
                           /\ Len(form.keywords.v) >= 3
        /\ formState.errors \subseteq Messages
        /\ \A i \in InFlight("analyzeCandidateResponse") :
              /\ Len(inflight[i].input.v.candidateResponse.v) >= 10
              /\ Len(inflight[i].input.v.jobDescription.v) >= 20
              /\ Len(inflight[i].input.v.keywords.v) >= 3

\* C6's case: values of exactly 10, 20 and 3 characters were accepted and submitted
C6_Witness ==
    \E i \in InFlight("analyzeCandidateResponse") :
        /\ Len(inflight[i].input.v.candidateResponse.v) = 10
        /\ Len(inflight[i].input.v.jobDescription.v) = 20
        /\ Len(inflight[i].input.v.keywords.v) = 3

\* a step in which a submit of the form with state `before`, then `after`, was rejected
RejectedSubmit(before, after) ==
    /\ tab' = tab
    /\ after.isSubmitted
    /\ ~after.isSubmitSuccessful
    /\ ~before.isSubmitted \/ before.isSubmitSuccessful

\* C7: a rejected submit leaves the form values, the stored result and the calls in
\* flight as they were and raises no toast, and no step that leaves values that fail
\* validation in the form issues a call or changes the stored result.
C7_RejectedSubmitChangesNothing ==
    [][/\ RejectedSubmit(formState, formState') =>
             /\ form' = form
             /\ analysisResult' = analysisResult
             /\ inflight' = inflight
             /\ toasts' = <<>>
       /\ RejectedSubmit(insightsFormState, insightsFormState') =>
             /\ insightsForm' = insightsForm
             /\ insightsResult' = insightsResult
             /\ inflight' = inflight
             /\ toasts' = <<>>
       /\ (tab' = tab /\ tab = "realtime" /\ form' = form /\ formSchema(form) # {}) =>
             /\ Len(inflight') <= Len(inflight)
             /\ analysisResult' = analysisResult
       /\ (tab' = tab /\ tab = "post-interview" /\ insightsForm' = insightsForm
              /\ insightsFormSchema(insightsForm) # {}) =>
             /\ Len(inflight') <= Len(inflight)
             /\ insightsResult' = insightsResult]_vars

\* C7's case: the last submit of the ResponseAnalysis form was rejected with errors,
\* and nothing is in flight
C7_Witness ==
    /\ tab = "realtime"
    /\ formState.isSubmitted
    /\ ~formState.isSubmitSuccessful
    /\ formState.errors # {}
    /\ formState.errors = formSchema(form)
    /\ inflight = <<>>

\* C8: a settled generateJobDetails call either failed or returned an object whose
\* jobDescription and keywords are both strings, and the form's jobDescription and
\* keywords are strings in every state.
C8_JobDetailsAllOrNothing ==
    /\ \A i \in Settled("generateJobDetails") :
          inflight[i].result.ok =>
             /\ inflight[i].result.value.t = "object"
             /\ inflight[i].result.value.v.jobDescription.t = "string"
             /\ inflight[i].result.value.v.keywords.t = "string"
    /\ form.jobDescription.t = "string"
    /\ form.keywords.t = "string"

\* C8's case: the model left jobDescription or keywords out, and the call failed
C8_Witness ==
    \E i \in Settled("generateJobDetails") :
        /\ inflight[i].reply.ok
        /\ inflight[i].reply.value.t = "object"
        /\ \/ ~Supplied(inflight[i].reply.value, "jobDescription")
           \/ ~Supplied(inflight[i].reply.value, "keywords")
        /\ ~inflight[i].result.ok

\* the model output that holds overallSummary "ok" and nothing else
OnlySummaryOk ==
    [t |-> "object",
     v |-> [overallSummary |-> [t |-> "string", v |-> <<"o", "k">>],
            strengths |-> Undefined, weaknesses |-> Undefined,
            skillAssessment |-> Undefined, comparisonPoints |-> Undefined]]

\* C9: every field the model supplied to an insights call is returned as supplied,
\* and an output of only {overallSummary: "ok"} yields overallSummary "ok" and four
\* empty arrays.
C9_SuppliedFieldsUnchanged ==
    \A i \in Settled("generatePostInterviewInsights") :
        LET c == inflight[i]
        IN  c.reply.ok =>
               /\ c.result.ok
               /\ \A k \in SequenceKeys \cup {"overallSummary"} :
                     Supplied(c.reply.value, k) => c.result.value.v[k] = c.reply.value.v[k]
               /\ c.reply.value = OnlySummaryOk =>
                     c.result.value =
                        [t |-> "object",
                         v |-> [overallSummary |-> [t |-> "string", v |-> <<"o", "k">>],
                                strengths |-> [t |-> "array", v |-> <<>>],
                                weaknesses |-> [t |-> "array", v |-> <<>>],
                                skillAssessment |-> [t |-> "array", v |-> <<>>],
                                comparisonPoints |-> [t |-> "array", v |-> <<>>]]]

\* C9's case: the model supplied every field, strengths in the order "b", "a", and
\* the flow returned them in that order
C9_Witness ==
    \E i \in Settled("generatePostInterviewInsights") :
        /\ inflight[i].reply.ok
        /\ \A k \in SequenceKeys \cup {"overallSummary"} : Supplied(inflight[i].reply.value, k)
        /\ inflight[i].result.ok
        /\ inflight[i].result.value.v.strengths.v =
              <<[t |-> "string", v |-> <<"b">>], [t |-> "string", v |-> <<"a">>]>>

\* the step is the continuation of the failed i-th call
FailureHandled(i) ==
    /\ inflight[i].status = "settled"
    /\ ~inflight[i].result.ok
    /\ tab' = tab
    /\ inflight' = RemoveAt(inflight, i)

\* C10: the step that handles a failed analyzeCandidateResponse or
\* generatePostInterviewInsights call raises exactly one toast, the destructive one of
\* that call, leaves the form values as they are, which are the values the call was
\* issued with, and leaves the submit button enabled.
C10_FailureLeavesFormResubmittable ==
    [][\A i \in 1..Len(inflight) :
         /\ (inflight[i].fn = "analyzeCandidateResponse" /\ FailureHandled(i)) =>
               /\ toasts' = <<[title |-> "Analysis Failed", variant |-> "destructive"]>>
               /\ form' = form
               /\ inflight[i].input.v.candidateResponse = form'.candidateResponse
               /\ inflight[i].input.v.jobDescription = form'.jobDescription
               /\ inflight[i].input.v.keywords = form'.keywords
               /\ ~SubmitDisabled'
         /\ (inflight[i].fn = "generatePostInterviewInsights" /\ FailureHandled(i)) =>
               /\ toasts' = <<[title |-> "Insight Generation Failed",
                               variant |-> "destructive"]>>
               /\ insightsForm' = insightsForm
               /\ inflight[i].input.v.jobDescription = insightsForm'.jobDescription
               /\ inflight[i].input.v.candidateResponses.v =
                     [j \in 1..Len(insightsForm'.candidateResponses.v) |->
                         insightsForm'.candidateResponses.v[j].v.value]
               /\ ~InsightsSubmitDisabled']_vars

\* C10's case: an analysis has just failed, and the form still holds valid values
\* behind an enabled submit button
C10_Witness ==
    /\ toasts = <<AnalysisFailed>>
    /\ analysisResult = Null
    /\ formSchema(form) = {}
    /\ ~SubmitDisabled

\* the calls among q whose flow has not run yet
PendingCalls(q) == {i \in 1..Len(q) : q[i].status = "pending"}

\* C11: exactly one request has been made to the model for every call whose flow has
\* run and none for a call whose flow has not, a settled call is never run again, and
\* the step that reports a failed call (a destructive toast) removes that call and
\* issues none: nothing asks the model again until the user acts.
C11_OneRequestPerCall ==
    [][/\ \A i \in 1..Len(inflight') :
             inflight'[i].requests = IF inflight'[i].status = "settled" THEN 1 ELSE 0
       /\ Cardinality(PendingCalls(inflight')) < Cardinality(PendingCalls(inflight)) =>
             \/ inflight' = <<>>
             \/ \E i \in PendingCalls(inflight) :
                   /\ inflight' = [inflight EXCEPT ![i] = inflight'[i]]
                   /\ inflight'[i].requests = 1
       /\ (toasts' # <<>> /\ toasts'[1].variant = "destructive") =>
             /\ Len(inflight') = Len(inflight) - 1
             /\ PendingCalls(inflight') = {}]_vars

\* C11's case: a generation failed after its one request, it was reported, and no
\* call is outstanding
C11_Witness ==
    /\ toasts = <<GenerationFailed>>
    /\ selectedJobRole \in Roles
    /\ inflight = <<>>

\* C12: the form is generating details exactly while a generateJobDetails call is
\* outstanding and analyzing exactly while an analyzeCandidateResponse call is (the
\* same for the insights form and its call); a pending flag is raised only by the
\* step that issues the call; and a form that is generating details, analyzing or
\* pending always gets to a state where its flags are down and its controls are no
\* longer disabled by a call.
C12_CallsSettle ==
    /\ [](isGeneratingDetails <=> InFlight("generateJobDetails") # {})
    /\ [](isAnalyzing <=> InFlight("analyzeCandidateResponse") # {})
    /\ [](isPending <=> InFlight("generatePostInterviewInsights") # {})
    /\ [][(\/ ~isGeneratingDetails /\ isGeneratingDetails'
           \/ ~isAnalyzing /\ isAnalyzing'
           \/ ~isPending /\ isPending')
          => /\ ~isLoading /\ ~isPending
             /\ Len(inflight') = Len(inflight) + 1
             /\ inflight'[Len(inflight')].status = "pending"]_vars
    /\ isGeneratingDetails ~> (~isLoading /\ ~SelectDisabled)
    /\ isAnalyzing ~> (~isLoading /\ ~SelectDisabled)
    /\ isPending ~> ~isPending
    /\ (\E i \in 1..Len(inflight) : inflight[i].status = "settled") ~> (inflight = <<>>)

\* C12's case: generated details have landed, the flags are down and the selector is
\* enabled again
C12_Witness ==
    /\ toasts = <<JobDetailsGenerated>>
    /\ form.jobDescription # EmptyString
    /\ ~isGeneratingDetails
    /\ ~SelectDisabled

\* C13 as stated: while a generateJobDetails call is in flight the user can select
\* another role (whose call would then overtake or be overtaken by the earlier one).
C13_SelectionDuringGeneration ==
    InFlight("generateJobDetails") # {} =>
        \E role \in Roles \ {selectedJobRole} : ENABLED SelectJobRole(role)

\* C13, amended: a generateJobDetails call in flight is the call for the selected
\* role and the selector is disabled; no step of the mounted form changes the
\* selected role or drops the call while it is in flight, other than the step that
\* handles it once it has settled, and that step writes a successful result into
\* jobDescription and keywords with the call's role still selected.
C13_ResponseLandsForSelectedRole ==
    [][\A i \in InFlight("generateJobDetails") :
          /\ inflight[i].input.v.jobRole.v = <<selectedJobRole>>
          /\ SelectDisabled
          /\ tab' = tab =>
                /\ selectedJobRole' = selectedJobRole
                /\ \/ /\ Len(inflight') = Len(inflight)
                      /\ inflight'[i].fn = "generateJobDetails"
                      /\ inflight'[i].input = inflight[i].input
                   \/ /\ inflight[i].status = "settled"
                      /\ inflight' = RemoveAt(inflight, i)
                      /\ inflight[i].result.ok =>
                            /\ form'.jobDescription = inflight[i].result.value.v.jobDescription
                            /\ form'.keywords = inflight[i].result.value.v.keywords]_vars

\* C13's case: the details generated for the selected role have landed in the form
C13_Witness ==
    /\ toasts = <<JobDetailsGenerated>>
    /\ selectedJobRole \in Roles
    /\ form.jobDescription = Text(MinJobDescription, selectedJobRole)
    /\ form.keywords = Text(MinKeywords, selectedJobRole)

\* C14: the response list of the PostInterviewInsights form never has fewer than one
\* entry, and every generatePostInterviewInsights call in flight carries at least one
\* response, each of at least 10 characters, and a jobDescription of at least 20
\* characters, the responses being the form's entries in the form's order.
C14_AtLeastOneResponse ==
    /\ Len(insightsForm.candidateResponses.v) >= 1
    /\ \A i \in InFlight("generatePostInterviewInsights") :
          LET input == inflight[i].input.v
          IN  /\ Len(input.candidateResponses.v) >= 1
              /\ \A j \in 1..Len(input.candidateResponses.v) :
                    Len(input.candidateResponses.v[j].v) >= 10
              /\ Len(input.jobDescription.v) >= 20
              /\ Len(input.candidateResponses.v) = Len(insightsForm.candidateResponses.v)
              /\ \A j \in 1..Len(input.candidateResponses.v) :
                    input.candidateResponses.v[j] = insightsForm.candidateResponses.v[j].v.value

\* C14's case: a call is in flight with two different responses, after a response was
\* added to the form
C14_Witness ==
    \E i \in InFlight("generatePostInterviewInsights") :
        /\ Len(inflight[i].input.v.candidateResponses.v) = 2
        /\ inflight[i].input.v.candidateResponses.v[1] = Text(MinCandidateResponse, "b")
        /\ inflight[i].input.v.candidateResponses.v[2] = Text(MinCandidateResponse, "a")

\* the positions of the prompt p that hold a substituted value
ValuePositions(p) == {k \in 1..Len(p) : p[k].kind = "value"}

\* the positions of the prompt p that start a list line
LinePositions(p) == {k \in 1..Len(p) : p[k] = [kind |-> "literal", text |-> <<"- ">>]}

Handled(fn, i) ==
    /\ inflight[i].fn = fn
    /\ inflight[i].status = "settled"
    /\ tab' = tab
    /\ inflight' = RemoveAt(inflight, i)

\* C16: while an analyzeCandidateResponse call is in flight analysisResult is null,
\* and the step that handles it leaves analysisResult equal to the value the call
\* returned, or null if the call failed; the same for insightsResult and
\* generatePostInterviewInsights.
C16_ResultDiscardedOnSubmit ==
    [][/\ InFlight("analyzeCandidateResponse") # {} => analysisResult = Null
       /\ InFlight("generatePostInterviewInsights") # {} => insightsResult = Null
       /\ \A i \in 1..Len(inflight') :
             /\ inflight'[i].fn = "analyzeCandidateResponse" => analysisResult' = Null
             /\ inflight'[i].fn = "generatePostInterviewInsights" => insightsResult' = Null
       /\ \A i \in 1..Len(inflight) :
             /\ Handled("analyzeCandidateResponse", i) =>
                   analysisResult' = IF inflight[i].result.ok THEN inflight[i].result.value
                                     ELSE [t |-> "null", v |-> <<>>]
             /\ Handled("generatePostInterviewInsights", i) =>
                   insightsResult' = IF inflight[i].result.ok THEN inflight[i].result.value
                                     ELSE [t |-> "null", v |-> <<>>]]_vars

\* C16's case: an insights request with two responses was submitted and is in
\* flight, and no result is stored
C16_Witness ==
    /\ InFlight("generatePostInterviewInsights") # {}
    /\ insightsFormState.isSubmitSuccessful
    /\ insightsResult = Null
    /\ Len(insightsForm.candidateResponses.v) = 2

\* C17: the step that handles a call whose model reply failed the output schema comes
\* after the one request made for that call, raises the call's destructive toast and
\* leaves the field errors of both forms as they were; a rejected submit shows field
\* errors, raises no toast and touches no call; and field errors never change in a
\* step that handles a call.
C17_OutputFailureIsNotFieldError ==
    [][/\ \A i \in 1..Len(inflight) :
             (/\ inflight[i].status = "settled"
              /\ inflight[i].reply.ok
              /\ ~inflight[i].result.ok
              /\ tab' = tab
              /\ inflight' = RemoveAt(inflight, i))
             => /\ inflight[i].requests = 1
                /\ formState'.errors = formState.errors
                /\ insightsFormState'.errors = insightsFormState.errors
                /\ Len(toasts') = 1
                /\ toasts'[1].variant = "destructive"
       /\ RejectedSubmit(formState, formState') =>
             /\ formState'.errors # {}
             /\ toasts' = <<>>
             /\ inflight' = inflight
       /\ RejectedSubmit(insightsFormState, insightsFormState') =>
             /\ insightsFormState'.errors # {}
             /\ toasts' = <<>>
             /\ inflight' = inflight
       /\ (tab' = tab /\ Len(inflight') < Len(inflight)) =>
             /\ formState'.errors = formState.errors
             /\ insightsFormState'.errors = insightsFormState.errors]_vars

\* C17's case: the model answered an analysis request with no output, the call
\* failed after its one request, and the form shows no field error
C17_Witness ==
    \E i \in Settled("analyzeCandidateResponse") :
        /\ inflight[i].reply.ok
        /\ inflight[i].reply.value = Null
        /\ ~inflight[i].result.ok
        /\ inflight[i].requests = 1
        /\ formState.errors = {}

\* C18: while a generateJobDetails call is in flight, jobDescription and keywords are
\* empty, analysisResult is null and the inputs are disabled; candidateResponse does
\* not change, and jobDescription and keywords change only in the step that handles
\* the call, which writes the generated texts over the two empty fields.
C18_NoEditDuringGeneration ==
    [][\A i \in InFlight("generateJobDetails") :
          /\ form.jobDescription = [t |-> "string", v |-> <<>>]
          /\ form.keywords = [t |-> "string", v |-> <<>>]
          /\ analysisResult = [t |-> "null", v |-> <<>>]
          /\ InputDisabled
          /\ tab' = tab =>
                /\ form'.candidateResponse = form.candidateResponse
                /\ (form'.jobDescription # form.jobDescription
                       \/ form'.keywords # form.keywords) =>
                      /\ Handled("generateJobDetails", i)
                      /\ inflight[i].result.ok
                      /\ form'.jobDescription = inflight[i].result.value.v.jobDescription
                      /\ form'.keywords = inflight[i].result.value.v.keywords]_vars

\* C18's case: generated details are about to land in a form whose candidateResponse
\* the user had typed before selecting the role
C18_Witness ==
    \E i \in Settled("generateJobDetails") :
        /\ inflight[i].result.ok
        /\ form.candidateResponse # EmptyString
        /\ form.jobDescription = EmptyString
        /\ form.keywords = EmptyString

\* C19: no generateJobDetails call is in flight together with an
\* analyzeCandidateResponse call; the selector is disabled while an analysis is
\* pending and the submit button while a generation is; and the step that handles
\* an analysis finds the form holding the role and the values it was submitted with.
C19_GenerationExcludesAnalysis ==
    [][/\ ~(InFlight("generateJobDetails") # {} /\ InFlight("analyzeCandidateResponse") # {})
       /\ isAnalyzing => SelectDisabled
       /\ isGeneratingDetails => SubmitDisabled
       /\ \A i \in InFlight("analyzeCandidateResponse") :
             /\ tab' = tab => selectedJobRole' = selectedJobRole
             /\ Handled("analyzeCandidateResponse", i) =>
                   /\ form'.jobDescription = inflight[i].input.v.jobDescription
                   /\ form'.keywords = inflight[i].input.v.keywords
                   /\ form'.candidateResponse = inflight[i].input.v.candidateResponse]_vars

\* C19's case: an analysis result has landed in a form with a selected role, whose
\* generated description was submitted and is still in the form
C19_Witness ==
    /\ toasts = <<AnalysisComplete>>
    /\ analysisResult # Null
    /\ selectedJobRole \in Roles
    /\ form.jobDescription = Text(MinJobDescription, selectedJobRole)

\* C20: a step issues a generateJobDetails call only if it changes the selected role,
\* and the call is for the new role; choosing the role that is already selected
\* changes neither the form values nor the result nor the calls in flight.
C20_GenerationOnlyOnRoleChange ==
    [][/\ Cardinality(GenerationCalls(inflight')) > Cardinality(GenerationCalls(inflight)) =>
             /\ selectedJobRole' # selectedJobRole
             /\ inflight'[Len(inflight')].input.v.jobRole.v = <<selectedJobRole'>>
       /\ (selectedJobRole # "" /\ SelectJobRole(selectedJobRole)) =>
             /\ form' = form
             /\ analysisResult' = analysisResult
             /\ isGeneratingDetails' = isGeneratingDetails
             /\ inflight' = inflight]_vars

\* C20's case: the generation for the selected role has failed, the fields are empty
\* and the selector, enabled again, still shows that role
C20_Witness ==
    /\ toasts = <<GenerationFailed>>
    /\ ~SelectDisabled
    /\ selectedJobRole \in Roles
    /\ form.jobRole = JsString(<<selectedJobRole>>)
    /\ form.jobDescription = EmptyString
    /\ form.keywords = EmptyString
    /\ ENABLED SelectJobRole(selectedJobRole)

\* C21: the step that handles a failed generateJobDetails call leaves jobDescription
\* and keywords empty, analysisResult null and the selected role the one the call was
\* issued for, raises the Generation Failed toast, and leaves the inputs enabled.
C21_FailedGenerationLeavesFieldsEmpty ==
    [][\A i \in 1..Len(inflight) :
          (Handled("generateJobDetails", i) /\ ~inflight[i].result.ok) =>
             /\ form'.jobDescription = [t |-> "string", v |-> <<>>]
             /\ form'.keywords = [t |-> "string", v |-> <<>>]
             /\ form'.candidateResponse = form.candidateResponse
             /\ analysisResult' = [t |-> "null", v |-> <<>>]
             /\ selectedJobRole' = selectedJobRole
             /\ inflight[i].input.v.jobRole.v = <<selectedJobRole'>>
             /\ toasts' = <<[title |-> "Generation Failed", variant |-> "destructive"]>>
             /\ ~InputDisabled'
             /\ ~SelectDisabled']_vars

\* C21's case: a generation has failed in a form that had been filled in and
\* submitted before the role was selected; its two fields are empty and editable
C21_Witness ==
    /\ toasts = <<GenerationFailed>>
    /\ formState.isSubmitSuccessful
    /\ selectedJobRole \in Roles
    /\ form.jobDescription = EmptyString
    /\ form.keywords = EmptyString
    /\ ~InputDisabled

\* the analyzeCandidateResponse calls among the calls q
AnalysisCalls(q) == {i \in 1..Len(q) : q[i].fn = "analyzeCandidateResponse"}

\* C22 as stated: every analyzeCandidateResponse call carries exactly
\* candidateResponse, jobDescription and keywords, and no model call of any kind
\* carries the job role or the video file.
C22_NoRoleInAnyCall ==
    \A i \in 1..Len(inflight) :
        /\ inflight[i].fn = "analyzeCandidateResponse" =>
              DOMAIN inflight[i].input.v = {"candidateResponse", "jobDescription", "keywords"}
        /\ "jobRole" \notin DOMAIN inflight[i].input.v
        /\ \A k \in DOMAIN inflight[i].input.v : inflight[i].input.v[k].t # "file"

\* C22, amended: every analyzeCandidateResponse call carries exactly candidateResponse,
\* jobDescription and keywords, with the values the form held when it was submitted;
\* the job role is carried only by generateJobDetails calls, as their only field, and
\* no call of any kind carries a file.
C22_AnalysisPayload ==
    [][/\ \A i \in 1..Len(inflight') :
             LET fn == inflight'[i].fn
                 input == inflight'[i].input.v
             IN  /\ fn = "analyzeCandidateResponse" =>
                       DOMAIN input = {"candidateResponse", "jobDescription", "keywords"}
                 /\ fn = "generateJobDetails" => DOMAIN input = {"jobRole"}
                 /\ fn = "generatePostInterviewInsights" =>
                       DOMAIN input = {"jobDescription", "candidateResponses"}
                 /\ \A k \in DOMAIN input : input[k].t \in {"string", "array"}
       /\ Cardinality(AnalysisCalls(inflight')) > Cardinality(AnalysisCalls(inflight)) =>
             LET input == inflight'[Len(inflight')].input.v
             IN  /\ input.candidateResponse = form.candidateResponse
                 /\ input.jobDescription = form.jobDescription
                 /\ input.keywords = form.keywords
                 /\ form' = form]_vars

\* C22's case: an analysis is in flight from a form with a selected role and a
\* stored video
C22_Witness ==
    /\ InFlight("analyzeCandidateResponse") # {}
    /\ selectedJobRole \in Roles
    /\ form.jobRole = JsString(<<selectedJobRole>>)
    /\ videoFile # Null

\* C23: a stored video file has one of the five accepted MIME types and a size of at
\* most 20 * 1024 * 1024 bytes, and videoFile and videoError are never both non-null.
C23_StoredVideoIsValid ==
    /\ videoFile # Null =>
          /\ videoFile.v.type \in {"video/mp4", "video/webm", "video/quicktime",
                                   "video/x-msvideo", "video/avi"}
          /\ videoFile.v.size <= 20 * 1024 * 1024
    /\ videoFile = Null \/ videoError = Null
    /\ videoError # Null => videoError.t = "string"

\* C23's case: a file of exactly 20 * 1024 * 1024 bytes is stored, with no error
C23_Witness ==
    /\ videoFile # Null
    /\ videoFile.v.size = 20 * 1024 * 1024
    /\ videoFile.v.type = "video/mp4"
    /\ videoError = Null

\* C24: a step of the mounted form that changes a non-null analysisResult sets it to
\* null, and is a submit (it issues an analyzeCandidateResponse call) or a change of
\* the selected role; every step that changes a typed field or the video state
\* without doing either leaves analysisResult as it was.
C24_ResultOutlivesEdits ==
    [][/\ (tab' = tab /\ analysisResult # [t |-> "null", v |-> <<>>]
              /\ analysisResult' # analysisResult) =>
             /\ analysisResult' = [t |-> "null", v |-> <<>>]
             /\ \/ Cardinality(AnalysisCalls(inflight')) > Cardinality(AnalysisCalls(inflight))
                \/ selectedJobRole' # selectedJobRole
       /\ (tab' = tab /\ selectedJobRole' = selectedJobRole /\ inflight' = inflight
              /\ (form' # form \/ videoVars' # videoVars)) =>
             analysisResult' = analysisResult]_vars

\* C24's case: a result is displayed over a form whose fields have since been edited
\* so that they no longer pass validation, and a video has been stored
C24_Witness ==
    /\ analysisResult # Null
    /\ ~isAnalyzing
    /\ formSchema(form) # {}
    /\ videoFile # Null

ContainsInAnyCase(s, word) ==
    \E i \in 0..(Len(s) - Len(word)) :
        \A j \in 1..Len(word) :
            \E l \in 1..Len(LowerCaseLetters) :
                /\ LowerCaseLetters[l] = word[j]
                /\ s[i + j] \in {LowerCaseLetters[l], UpperCaseLetters[l]}

====
